---- MODULE Spec2Model ----
(***************************************************************************)
(* A model of the retrieval pipeline of agent-ly: the hybrid (BM25 +       *)
(* vector) search of RAG.query with its cached lexical index, temporal     *)
(* filtering, recency boosting and optional reranking; the citation        *)
(* wrapper RAGQuerySystem.query; and the parallel tool executor.           *)
(*                                                                         *)
(* Scores are fixed-point numbers: One stands for 1.0.  The values the     *)
(* model draws (distances, lexical scores, dates, alphas) are chosen so    *)
(* that every quotient the code forms is exact at this resolution.         *)
(***************************************************************************)
EXTENDS Integers, Sequences, FiniteSets, TLC

(***************************************************************************)
(* Bounds of the model.                                                    *)
(***************************************************************************)
MaxChunks == 3          \* chunks held by the vector store at once
MaxK == 2               \* largest k a caller asks for
MaxRerankTopK == 3      \* largest rerank_top_k a caller asks for
MaxCalls == 3           \* most tool names selected for one turn

(***************************************************************************)
(* Program constants.                                                      *)
(***************************************************************************)
One == 1200             \* fixed-point 1.0
Eps == 0                \* 1e-8 of hybrid_search.py:120, below the resolution 1/One
AlphaOne == 10          \* hybrid_alpha is given in tenths
Year == 365             \* days_ago / 365.0
DefaultRerankTopK == 20 \* RAG.query's default rerank_top_k
DefaultAlpha == 5       \* RAG.query's default hybrid_alpha = 0.5

None == [kind |-> "none"]

(***************************************************************************)
(* content_date values and date-range bounds.  A day is counted relative   *)
(* to today (day 0): datetime.now() is naive, so a timezone-aware value    *)
(* cannot be compared with it nor with a naive bound.                      *)
(***************************************************************************)
Naive(d) == [kind |-> "naive", day |-> d]
Aware(d) == [kind |-> "aware", day |-> d]
Absent == [kind |-> "absent", day |-> 0]
Unparsable == [kind |-> "bad", day |-> 0]

\* datetime.fromisoformat succeeds
Parses(date) == date.kind \in {"naive", "aware"}

(***************************************************************************)
(* The chunks a collection may hold.  Two chunks may share their text.     *)
(* The semantic distance and the raw BM25 score of a chunk for the         *)
(* question depend on its text alone.                                      *)
(***************************************************************************)
ChunkIds == 1..6

Chunk(i) ==
    CASE i = 1 -> [id |-> 1, text |-> "A", date |-> Naive(0 - Year), tag |-> "a"]
      [] i = 2 -> [id |-> 2, text |-> "B", date |-> Naive(0), tag |-> "b"]
      [] i = 3 -> [id |-> 3, text |-> "C", date |-> Absent, tag |-> "a"]
      [] i = 4 -> [id |-> 4, text |-> "A", date |-> Aware(0), tag |-> "b"]
      [] i = 5 -> [id |-> 5, text |-> "B", date |-> Naive(Year), tag |-> "a"]
      [] OTHER -> [id |-> i, text |-> "B", date |-> Unparsable, tag |-> "b"]

\* the distance the vector store reports for a chunk text (0 = identical)
Distance(text) == CASE text = "A" -> 1 [] text = "B" -> 3 [] OTHER -> 0

\* BM25Okapi.get_scores: the raw lexical score of a chunk text
Bm25Score(text) == CASE text = "A" -> 0 [] text = "B" -> 2 [] OTHER -> 1

(***************************************************************************)
(* Sequences.                                                              *)
(***************************************************************************)
Range(s) == {s[i] : i \in 1..Len(s)}

Take(s, n) == SubSeq(s, 1, IF n < Len(s) THEN n ELSE Len(s))

Max2(a, b) == IF a >= b THEN a ELSE b

\* sequences over S without repetition, of length at most n
RECURSIVE DistinctSeqs(_, _)
DistinctSeqs(S, n) ==
    IF n = 0 THEN {<<>>}
    ELSE LET shorter == DistinctSeqs(S, n - 1)
         IN  shorter \cup
             UNION {{Append(s, x) : x \in S \ Range(s)} : s \in shorter}

\* a descending sort that lets equal scores change places
SortDescUnstable(s) ==
    LET rank(i) == Cardinality({j \in 1..Len(s) : s[j].score > s[i].score})
                   + Cardinality({j \in (i + 1)..Len(s) : s[j].score = s[i].score}) + 1
    IN  [p \in 1..Len(s) |-> s[CHOOSE i \in 1..Len(s) : rank(i) = p]]

\* list.sort(key=score, reverse=True): descending and stable
SortDesc(s) ==
    LET rank(i) == Cardinality({j \in 1..Len(s) : s[j].score > s[i].score})
                   + Cardinality({j \in 1..(i - 1) : s[j].score = s[i].score}) + 1
    IN  [p \in 1..Len(s) |-> s[CHOOSE i \in 1..Len(s) : rank(i) = p]]

\* ascending by distance, ties in collection order
SortAsc(s) ==
    LET rank(i) == Cardinality({j \in 1..Len(s) : s[j].score < s[i].score})
                   + Cardinality({j \in 1..(i - 1) : s[j].score = s[i].score}) + 1
    IN  [p \in 1..Len(s) |-> s[CHOOSE i \in 1..Len(s) : rank(i) = p]]

Docs(scored) == [i \in 1..Len(scored) |-> scored[i].doc]

(***************************************************************************)
(* RAG.query, step by step.  A call's arguments are a record               *)
(*   [k, filter, rerank, rerank_top_k, start, end, recency_boost,          *)
(*    hybrid_alpha]                                                        *)
(* where filter is "none" or the tag every chunk must carry, and start and *)
(* end are date values (Absent when the bound is omitted).                 *)
(***************************************************************************)

\* lines 74-83: a bound that is omitted or does not parse is None
DateBound(b) == IF Parses(b) THEN b ELSE None

HasBound(a) == DateBound(a.start) # None \/ DateBound(a.end) # None

\* line 86
NeedsFiltering(a) == HasBound(a) \/ a.recency_boost

\* line 87 with the over-fetch of a plain call (k * 2) in every case
InitialKPlain(a, useReranker) ==
    Max2(IF a.rerank \/ useReranker THEN a.rerank_top_k ELSE a.k, a.k * 2)

\* line 87
InitialK(a, useReranker) ==
    Max2(IF a.rerank \/ useReranker THEN a.rerank_top_k ELSE a.k,
         IF NeedsFiltering(a) THEN a.k * 3 ELSE a.k * 2)

\* the metadata equality filter of the vector store
Matches(c, filter) == filter = "none" \/ c.tag = filter

\* VectorStore.similarity_search_with_score: the k nearest chunks of the
\* collection that satisfy the filter, by ascending distance
SimilaritySearch(st, k, filter) ==
    LET ok(c) == Matches(c, filter)
        hits == SelectSeq(st, ok)
    IN  Take(SortAsc([i \in 1..Len(hits) |->
                        [doc |-> hits[i], score |-> Distance(hits[i].text)]]), k)

\* line 95 and line 111: the dict keyed by page_content keeps the last pair
\* of each text
VectorScore(vr, text) ==
    LET hits == {i \in 1..Len(vr) : vr[i].doc.text = text}
    IN  IF hits = {} THEN None
        ELSE vr[CHOOSE i \in hits : \A j \in hits : j <= i]

\* line 99: one raw score per document the index was built from
GetScores(index) == [i \in 1..Len(index) |-> Bm25Score(index[i])]

MinOf(s) == CHOOSE x \in Range(s) : \A y \in Range(s) : x <= y
MaxOf(s) == CHOOSE x \in Range(s) : \A y \in Range(s) : x >= y

\* line 119
NormalizedVector(d) == IF d > 0 THEN One \div (1 + d) ELSE 0

\* line 120 (raw scores are whole numbers, the quotient is fixed-point)
NormalizedBm25(score, scores) ==
    IF MaxOf(scores) > MinOf(scores)
    THEN ((score - MinOf(scores)) * One) \div (MaxOf(scores) - MinOf(scores) + Eps)
    ELSE 0

\* line 123 with the two weights exchanged
HybridScoreSwapped(alpha, nv, nb) ==
    ((AlphaOne - alpha) * nv + alpha * nb) \div AlphaOne

\* line 123
HybridScore(alpha, nv, nb) == (alpha * nv + (AlphaOne - alpha) * nb) \div AlphaOne

\* lines 107-130: one candidate per chunk of the cached snapshot, ranked
\* (idx is the position the loop's enumerate gave the candidate)
CombinedResults(snapshot, index, vr, alpha) ==
    LET scores == GetScores(index)
        entry(idx) ==
            LET hit == VectorScore(vr, snapshot[idx].text)
                vector_score == IF hit = None THEN 0 ELSE hit.score
                normalized_vector == NormalizedVector(vector_score)
                normalized_bm25 == NormalizedBm25(scores[idx], scores)
            IN  [idx |-> idx,
                 doc |-> IF hit = None THEN snapshot[idx] ELSE hit.doc,
                 vector |-> normalized_vector, bm25 |-> normalized_bm25,
                 score |-> HybridScore(alpha, normalized_vector, normalized_bm25)]
    IN  SortDesc([idx \in 1..Len(snapshot) |-> entry(idx)])

\* lines 137-149: what the loop does with one candidate
DateClass(date, start, end) ==
    IF date.kind = "absent" THEN "undated"
    ELSE IF ~Parses(date) THEN "undated"                      \* ValueError
    ELSE IF start # None /\ start.kind # date.kind THEN "undated"   \* TypeError
    ELSE IF start # None /\ date.day < start.day THEN "dropped"
    ELSE IF end # None /\ end.kind # date.kind THEN "undated"       \* TypeError
    ELSE IF end # None /\ date.day > end.day THEN "dropped"
    ELSE "kept"

\* score * 0.8
Penalized(e) == [e EXCEPT !.score = (e.score * 8) \div 10]

\* lines 133-158
TemporalFilter(combined, start, end) ==
    LET kept(e) == DateClass(e.doc.date, start, end) = "kept"
        undated(e) == DateClass(e.doc.date, start, end) = "undated"
        filtered == SelectSeq(combined, kept)
        without == SelectSeq(combined, undated)
        docs_without_dates == [i \in 1..Len(without) |-> Penalized(without[i])]
    IN  IF filtered = <<>> /\ docs_without_dates # <<>> THEN docs_without_dates
        ELSE IF filtered # <<>> /\ docs_without_dates # <<>>
             THEN filtered \o docs_without_dates
        ELSE filtered

\* datetime.now(), in days since day 0 (the day the dates of the chunks are
\* counted from)
VARIABLE now

\* (datetime.now() - content_date).days for a naive content_date
DaysAgo(date) == now - date.day

\* line 167 divides by zero, and only ValueError and TypeError are caught
RecencyRaises(date) == date.kind = "naive" /\ Year + DaysAgo(date) = 0

\* lines 163-169
Recency(date) ==
    IF date.kind = "naive" /\ ~RecencyRaises(date)
    THEN (One * Year) \div (Year + DaysAgo(date))
    ELSE 0

\* line 172
FinalScore(hybrid, recency) == (7 * hybrid + 3 * recency) \div 10

\* lines 160-176
RecencyBoost(combined) ==
    SortDesc([i \in 1..Len(combined) |->
                [combined[i] EXCEPT
                    !.score = FinalScore(combined[i].score,
                                         Recency(combined[i].doc.date))]])

(***************************************************************************)
(* Reranker.rerank.  The reranking collaborator either raises or returns   *)
(* a list of items, each carrying an index (0-based) or none.              *)
(***************************************************************************)
NoIndex == 0 - 1

\* one item of the collaborator's answer: what the three ways of reading its
\* index (lines 56-71) end with: an int, None, or a value of another type
Item(kind, index) == [kind |-> kind, index |-> index]

RerankShapes == {"raise", "ranked", "long", "malformed", "mixed"}

\* what the collaborator returns for n documents when asked for top_n
RerankResults(shape, n, top_n) ==
    LET m == IF top_n < n THEN top_n ELSE n
    IN  CASE shape = "ranked" -> [i \in 1..m |-> Item("int", n - i)]
          [] shape = "long" -> [i \in 1..(top_n + 1) |-> Item("int", (i - 1) % n)]
          [] shape = "mixed" ->
                <<Item("int", n - 1), Item("none", NoIndex), Item("int", n),
                  Item("float", 0), Item("int", NoIndex), Item("int", 0)>>
          [] OTHER -> <<Item("none", NoIndex), Item("int", n)>>

\* the loop of lines 53-77 without the lower bound of line 74: a negative
\* index counts from the end of the list
MapIndicesFromEnd(documents, results_list) ==
    LET valid(item) == item.kind = "int" /\ item.index < Len(documents)
        kept == SelectSeq(results_list, valid)
    IN  [i \in 1..Len(kept) |-> documents[(kept[i].index % Len(documents)) + 1]]

\* reranker.py lines 53-77
MapIndices(documents, results_list) ==
    LET valid(item) ==
            item.kind = "int" /\ 0 <= item.index /\ item.index < Len(documents)
        kept == SelectSeq(results_list, valid)
    IN  [i \in 1..Len(kept) |-> documents[kept[i].index + 1]]

\* reranker.py lines 25-77
Rerank(documents, top_k, shape) ==
    IF documents = <<>> THEN [raised |-> FALSE, docs |-> <<>>]
    ELSE IF shape = "raise" THEN [raised |-> TRUE, docs |-> <<>>]
    ELSE [raised |-> FALSE,
          docs |-> MapIndices(documents,
                     RerankResults(shape, Len(documents),
                                   IF top_k # 0 THEN top_k ELSE Len(documents)))]

(***************************************************************************)
(* RAG._build_bm25_index and RAG.query as functions of the instance's      *)
(* fields and the collection.                                              *)
(***************************************************************************)
Unbuilt == [built |-> FALSE, docs |-> <<>>]
Unset == [set |-> FALSE, data |-> <<>>]

Texts(data) == [i \in 1..Len(data) |-> data[i].text]

NeedsBuild(index, cache) == ~index.built \/ ~cache.set

\* BM25Okapi divides by the corpus size
BuildRaises(data) == data = <<>>

\* CacheAfterBuild where a reused snapshot is no longer in the order the
\* index was built in
CacheOutOfOrder(index, cache, st) ==
    IF NeedsBuild(index, cache) THEN [set |-> TRUE, data |-> st]
    ELSE [set |-> TRUE,
          data |-> [i \in 1..Len(cache.data) |->
                      cache.data[Len(cache.data) + 1 - i]]]

\* _bm25_data_cache after _build_bm25_index (assigned before BM25Okapi runs)
CacheAfterBuild(index, cache, st) ==
    IF NeedsBuild(index, cache) THEN [set |-> TRUE, data |-> st] ELSE cache

\* _bm25_index after _build_bm25_index
IndexAfterBuild(index, cache, st) ==
    IF NeedsBuild(index, cache) /\ ~BuildRaises(st)
    THEN [built |-> TRUE, docs |-> Texts(st)]
    ELSE index

\* the position in the snapshot, the normalized scores and the hybrid score
\* of each candidate of a ranked list, in its order
Ranking(scored) ==
    [i \in 1..Len(scored) |->
        [idx |-> scored[i].idx, vector |-> scored[i].vector,
         bm25 |-> scored[i].bm25, score |-> scored[i].score]]

\* the position in the snapshot of each candidate of a ranked list
Origins(scored) == [i \in 1..Len(scored) |-> scored[i].idx]

\* the scores of a ranked list, in its order
Scores(scored) == [i \in 1..Len(scored) |-> scored[i].score]

\* a call that raised: no list is returned (candidates, pool and prerank are
\* the locals the call had computed by then; final holds the score of each
\* element of pool, initial_k the size asked of the semantic search, 0 when
\* the call did not get that far, ranking the hybrid ranking of lines
\* 107-130, origin the snapshot position of each element of pool)
Raised(err, initial_k, ranked, pool, prerank) ==
    [raised |-> TRUE, error |-> err, docs |-> <<>>, initial_k |-> initial_k,
     candidates |-> Docs(ranked), ranking |-> Ranking(ranked), origin |-> <<>>,
     pool |-> pool, final |-> <<>>, prerank |-> prerank,
     reranked |-> prerank # <<>>]

\* hybrid_search.py lines 59-187, with the index and the cache as
\* _build_bm25_index left them
RagQuery(st, index, cache, useReranker, a, shape) ==
    IF ~index.built THEN Raised("ZeroDivisionError", 0, <<>>, <<>>, <<>>)
    ELSE
    LET vector_results == SimilaritySearch(st, InitialK(a, useReranker), a.filter)
        ranked == CombinedResults(cache.data, index.docs, vector_results,
                                  a.hybrid_alpha)
        filtered == IF HasBound(a)
                    THEN TemporalFilter(ranked, DateBound(a.start), DateBound(a.end))
                    ELSE ranked
        combined_results == IF a.recency_boost THEN RecencyBoost(filtered)
                            ELSE filtered
        cut == IF a.rerank \/ useReranker THEN a.rerank_top_k ELSE a.k
        results == Docs(Take(combined_results, cut))
        reranked == Rerank(results, a.k, shape)
    IN  IF a.recency_boost /\ \E i \in 1..Len(filtered) :
                                 RecencyRaises(filtered[i].doc.date)
        THEN Raised("ZeroDivisionError", InitialK(a, useReranker), ranked,
                    <<>>, <<>>)
        ELSE IF a.rerank /\ useReranker
        THEN IF reranked.raised
             THEN Raised("RerankError", InitialK(a, useReranker), ranked,
                         Docs(combined_results), results)
             ELSE [raised |-> FALSE, error |-> "", docs |-> reranked.docs,
                   initial_k |-> InitialK(a, useReranker),
                   candidates |-> Docs(ranked), ranking |-> Ranking(ranked),
                   origin |-> Origins(combined_results),
                   pool |-> Docs(combined_results),
                   final |-> Scores(combined_results), prerank |-> results,
                   reranked |-> results # <<>>]
        ELSE [raised |-> FALSE, error |-> "", docs |-> Take(results, a.k),
              initial_k |-> InitialK(a, useReranker),
              candidates |-> Docs(ranked), ranking |-> Ranking(ranked),
              origin |-> Origins(combined_results),
              pool |-> Docs(combined_results),
              final |-> Scores(combined_results), prerank |-> results,
              reranked |-> FALSE]

(***************************************************************************)
(* RAGQuerySystem.query: retrieval, then the language model.               *)
(***************************************************************************)
NoInformation == "No relevant information found in the knowledge base."

\* rag_query_system.py lines 116-122
Citations(chunks) == [i \in 1..Len(chunks) |-> [source |-> chunks[i].id]]

\* CitedAnswer without the handler around the language-model call
CitedAnswerUncaught(out, llm) ==
    IF out.raised
    THEN [raised |-> FALSE,
          answer |-> <<"Error retrieving information: ", "Retrieval failed: ",
                       out.error>>,
          citations |-> <<>>, llm_called |-> FALSE]
    ELSE IF out.docs = <<>>
    THEN [raised |-> FALSE, answer |-> <<NoInformation>>, citations |-> <<>>,
          llm_called |-> FALSE]
    ELSE IF llm = "raise"
    THEN [raised |-> TRUE, answer |-> <<>>, citations |-> <<>>,
          llm_called |-> TRUE]
    ELSE [raised |-> FALSE, answer |-> <<llm>>, citations |-> Citations(out.docs),
          llm_called |-> TRUE]

\* CitedAnswer without the test for an empty retrieval: the language model
\* is asked over an empty context
CitedAnswerOverNothing(out, llm) ==
    IF out.raised
    THEN [raised |-> FALSE,
          answer |-> <<"Error retrieving information: ", "Retrieval failed: ",
                       out.error>>,
          citations |-> <<>>, llm_called |-> FALSE]
    ELSE IF llm = "raise"
    THEN [raised |-> FALSE,
          answer |-> <<"Error generating answer: ", "LLM invocation failed: ",
                       "LlmError">>,
          citations |-> <<>>, llm_called |-> TRUE]
    ELSE [raised |-> FALSE, answer |-> <<llm>>, citations |-> Citations(out.docs),
          llm_called |-> TRUE]

\* rag_query_system.py lines 67-129; an answer is the sequence of the parts
\* its string is formatted from
CitedAnswer(out, llm) ==
    IF out.raised
    THEN [raised |-> FALSE,
          answer |-> <<"Error retrieving information: ", "Retrieval failed: ",
                       out.error>>,
          citations |-> <<>>, llm_called |-> FALSE]
    ELSE IF out.docs = <<>>
    THEN [raised |-> FALSE, answer |-> <<NoInformation>>, citations |-> <<>>,
          llm_called |-> FALSE]
    ELSE IF llm = "raise"
    THEN [raised |-> FALSE,
          answer |-> <<"Error generating answer: ", "LLM invocation failed: ",
                       "LlmError">>,
          citations |-> <<>>, llm_called |-> TRUE]
    ELSE [raised |-> FALSE, answer |-> <<llm>>, citations |-> Citations(out.docs),
          llm_called |-> TRUE]

(***************************************************************************)
(* State: the collection behind the vector store, the fields of one RAG    *)
(* instance, and what the last call returned to its caller.                *)
(***************************************************************************)
VARIABLES
    store,              \* the collection: chunks in iteration order
    bm25_index,         \* RAG._bm25_index (the texts it was built from)
    bm25_data_cache,    \* RAG._bm25_data_cache
    use_reranker,       \* RAG.use_reranker
    ret,                \* the last call and its result, until the caller takes it
    last,               \* the call and result the caller kept to compare
    threads,            \* per thread inside RAG.query: its position and locals
    tool_calls,         \* state["tool_calls"]: the selected tool names
    tools_dict,         \* the names registered in tools_dict
    date_llm,           \* agent.tools._rag_date_extraction_llm
    pc,                 \* where execute_tools_parallel stands
    dates,              \* date_start and date_end as extracted
    extraction,         \* how the date extraction of this call went
    futures,            \* per submitted call: its arguments and its state
    collect,            \* the position of the collecting loop
    tool_results,       \* the mapping the call builds
    timed_out,          \* the tools whose wait ended by the timeout
    decision,           \* the ToolDecision the structured model produced
    tool_call_details,  \* decision_node's tool_call_details
    messages,           \* AgentState.messages of the thread
    node,               \* where the turn of EnterpriseAgent.chat stands
    supersteps,         \* graph steps taken in this turn
    called,             \* the last call of call_model and what it gave
    reply               \* what EnterpriseAgent.chat gave its caller

ragVars == <<store, bm25_index, bm25_data_cache, use_reranker, ret, now, last,
             threads>>

toolVars == <<tool_calls, tools_dict, date_llm, pc, dates, extraction,
              futures, collect, tool_results, timed_out>>

decisionVars == <<decision, tool_call_details>>

agentVars == <<messages, node, supersteps, called, reply>>

vars == <<store, bm25_index, bm25_data_cache, use_reranker, ret, now, last,
          threads, tool_calls,
          tools_dict, date_llm, pc, dates, extraction, futures, collect,
          tool_results, timed_out, decision, tool_call_details, messages,
          node, supersteps, called, reply>>

NoRet == [op |-> "none"]

NumThreads == 2     \* threads that share one RAG instance

Workers == 1..NumThreads

\* a thread outside RAG.query: data is the local of _build_bm25_index
\* (line 51), index the object get_scores ran on (line 99), cache the local
\* data of query (line 102)
NotInQuery == [pc |-> "idle", data |-> <<>>, index |-> Unbuilt, cache |-> <<>>]

NoThreads == [t \in Workers |-> NotInQuery]

\* the inputs the model draws
Filters == {"none", "a"}
Bounds == {Absent, Naive(0 - Year)}
Alphas == {DefaultAlpha, AlphaOne}
LlmOutcomes == {"raise", "text"}

QueryArgs ==
    [k : 1..MaxK, filter : Filters, rerank : BOOLEAN,
     rerank_top_k : 1..MaxRerankTopK, start : Bounds, end : Bounds,
     recency_boost : BOOLEAN, hybrid_alpha : Alphas]

\* RAGQuerySystem.query passes k, rerank, date_range and recency_boost on
AskArgs ==
    {a \in QueryArgs : /\ a.filter = "none"
                       /\ a.rerank_top_k = MaxRerankTopK
                       /\ a.hybrid_alpha = DefaultAlpha}

\* everything else is RAG.query's default
WithDefaults(a) ==
    [a EXCEPT !.rerank_top_k = DefaultRerankTopK]

Collections ==
    {[i \in 1..Len(s) |-> Chunk(s[i])] : s \in DistinctSeqs(ChunkIds, MaxChunks)}

NoResults == [t \in {} |-> <<>>]

NoDates == [date_start |-> "None", date_end |-> "None"]

\* no call of execute_tools_parallel is under way
NoToolCall ==
    /\ tool_calls = <<>>
    /\ tools_dict = {}
    /\ date_llm = "undefined"
    /\ pc = "idle"
    /\ dates = NoDates
    /\ extraction = "not run"
    /\ futures = <<>>
    /\ collect = 0
    /\ tool_results = NoResults
    /\ timed_out = {}

NoDecision == [direct_answer |-> FALSE, confidence |-> 0, tool_calls |-> <<>>]

NoReply == [raised |-> FALSE, value |-> <<>>]

\* call_model was not called yet
NoCall == [primary |-> "none", fallback |-> "none",
           out |-> [raised |-> FALSE, messages |-> <<>>, invocations |-> <<>>]]

\* no decision was taken and no turn of the agent is under way
NoTurn ==
    /\ decision = NoDecision
    /\ tool_call_details = <<>>
    /\ messages = <<>>
    /\ node = "idle"
    /\ supersteps = 0
    /\ called = NoCall
    /\ reply = NoReply

Init ==
    /\ store \in Collections
    /\ bm25_index = Unbuilt
    /\ bm25_data_cache = Unset
    /\ use_reranker \in BOOLEAN
    /\ ret = NoRet
    /\ now = 0
    /\ last = NoRet
    /\ threads = NoThreads
    /\ NoToolCall
    /\ NoTurn

\* RAG.query(question, k, filter, rerank, rerank_top_k, date_range,
\*           recency_boost, hybrid_alpha); read tells whether the call read the
\* corpus (view_data, line 51)
Query(a, shape) ==
    /\ ret = NoRet
    /\ bm25_data_cache' = CacheAfterBuild(bm25_index, bm25_data_cache, store)
    /\ bm25_index' = IndexAfterBuild(bm25_index, bm25_data_cache, store)
    /\ ret' = [op |-> "query", args |-> a, shape |-> shape,
               read |-> NeedsBuild(bm25_index, bm25_data_cache),
               out |-> RagQuery(store, bm25_index', bm25_data_cache',
                                use_reranker, a, shape)]
    /\ UNCHANGED <<store, use_reranker, threads, now, last>>
    /\ UNCHANGED toolVars
    /\ UNCHANGED <<decisionVars, agentVars>>

\* RAGQuerySystem.query(question, k, rerank, date_range, recency_boost)
Ask(a, shape, llm) ==
    /\ ret = NoRet
    /\ bm25_data_cache' = CacheAfterBuild(bm25_index, bm25_data_cache, store)
    /\ bm25_index' = IndexAfterBuild(bm25_index, bm25_data_cache, store)
    /\ LET chunks == RagQuery(store, bm25_index', bm25_data_cache',
                              use_reranker, WithDefaults(a), shape)
       IN  ret' = [op |-> "ask", args |-> a, shape |-> shape, llm |-> llm,
                   read |-> NeedsBuild(bm25_index, bm25_data_cache),
                   retrieval |-> chunks, out |-> CitedAnswer(chunks, llm)]
    /\ UNCHANGED <<store, use_reranker, threads, now, last>>
    /\ UNCHANGED toolVars
    /\ UNCHANGED <<decisionVars, agentVars>>

\* the caller takes the result
Return ==
    /\ ret # NoRet
    /\ ret' = NoRet
    /\ UNCHANGED <<store, bm25_index, bm25_data_cache, use_reranker, threads, now, last>>
    /\ UNCHANGED toolVars
    /\ UNCHANGED <<decisionVars, agentVars>>

\* the shapes of collaborator response that a call can tell apart
ShapesFor(a) == IF a.rerank /\ use_reranker THEN RerankShapes ELSE {"ranked"}

\* calls are made one at a time: no input is drawn while a result is pending
WhenIdle(inputs) == IF ret = NoRet THEN inputs ELSE {}

Next ==
    \/ \E a \in WhenIdle(QueryArgs) : \E shape \in ShapesFor(a) : Query(a, shape)
    \/ \E a \in WhenIdle(AskArgs) : \E shape \in ShapesFor(a), llm \in LlmOutcomes :
          Ask(a, shape, llm)
    \/ Return

Spec == Init /\ [][Next]_vars

(***************************************************************************)
(* The life of a collection: chunks are added and deleted between the      *)
(* queries of one RAG instance.                                            *)
(***************************************************************************)
StoreArgs ==
    {a \in QueryArgs : /\ a.filter = "none" /\ ~a.rerank
                       /\ a.rerank_top_k = MaxRerankTopK
                       /\ a.start = Absent /\ a.end = Absent
                       /\ a.hybrid_alpha = DefaultAlpha}

InitStore ==
    /\ store = <<>>
    /\ bm25_index = Unbuilt
    /\ bm25_data_cache = Unset
    /\ use_reranker = FALSE
    /\ ret = NoRet
    /\ now = 0
    /\ last = NoRet
    /\ threads = NoThreads
    /\ NoToolCall
    /\ NoTurn

\* VectorStore.add_documents, one chunk
AddDocuments(i) ==
    /\ ret = NoRet
    /\ Len(store) < MaxChunks
    /\ \A j \in 1..Len(store) : store[j].id # i
    /\ store' = Append(store, Chunk(i))
    /\ UNCHANGED <<bm25_index, bm25_data_cache, use_reranker, threads, ret, now, last>>
    /\ UNCHANGED toolVars
    /\ UNCHANGED <<decisionVars, agentVars>>

\* VectorStore.delete(ids=[i])
Delete(i) ==
    /\ ret = NoRet
    /\ \E j \in 1..Len(store) : store[j].id = i
    /\ store' = LET keep(c) == c.id # i IN SelectSeq(store, keep)
    /\ UNCHANGED <<bm25_index, bm25_data_cache, use_reranker, threads, ret, now, last>>
    /\ UNCHANGED toolVars
    /\ UNCHANGED <<decisionVars, agentVars>>

NextStore ==
    \/ \E i \in ChunkIds : AddDocuments(i)
    \/ \E i \in ChunkIds : Delete(i)
    \/ \E a \in WhenIdle(StoreArgs) : Query(a, "ranked")
    \/ Return

SpecStore == InitStore /\ [][NextStore]_vars

(***************************************************************************)
(* Properties of RAG.query.                                                *)
(***************************************************************************)
Returned == ret.op = "query" /\ ~ret.out.raised

\* the date lies strictly outside [start, end], open on an omitted bound
Outside(date, start, end) ==
    \/ start # None /\ date.day < start.day
    \/ end # None /\ date.day > end.day

\* C1: every chunk a query with a metadata filter returns satisfies the
\* filter.
C1_FilterHonoured ==
    (Returned /\ ret.args.filter # "none") =>
        \A i \in 1..Len(ret.out.docs) :
            Matches(ret.out.docs[i], ret.args.filter)

\* C2: with a date bound given, no returned chunk has a content_date that
\* parses and lies strictly outside the range.
C2_OutOfRangeDropped ==
    (Returned /\ HasBound(ret.args)) =>
        \A i \in 1..Len(ret.out.docs) :
            ~(/\ Parses(ret.out.docs[i].date)
              /\ Outside(ret.out.docs[i].date, DateBound(ret.args.start),
                         DateBound(ret.args.end)))

\* the case of the metadata-gap fallback: every dated candidate is out of
\* range and some candidate is undated
GapCase ==
    /\ ret.op = "query"
    /\ HasBound(ret.args)
    /\ \A c \in Range(ret.out.candidates) :
          Parses(c.date) =>
              Outside(c.date, DateBound(ret.args.start), DateBound(ret.args.end))
    /\ \E c \in Range(ret.out.candidates) : ~Parses(c.date)

\* C3: in the gap case the query returns a non-empty list of undated
\* candidates only.
C3_GapFallback ==
    GapCase =>
        /\ ~ret.out.raised
        /\ ret.out.docs # <<>>
        /\ \A i \in 1..Len(ret.out.docs) : ~Parses(ret.out.docs[i].date)

\* C4: a query returns at most k chunks, whatever the reranking
\* collaborator answers.
C4_AtMostK == Returned => Len(ret.out.docs) <= ret.args.k

\* C5: a query returns exactly k chunks whenever at least k candidates
\* remain after ranking and date filtering.
C5_ExactlyK ==
    (Returned /\ Len(ret.out.pool) >= ret.args.k) =>
        Len(ret.out.docs) = ret.args.k

\* C6: when the reranking collaborator raises or returns malformed data,
\* the query does not raise and returns the pre-rerank list cut to k.
C6_RerankFailOpen ==
    (/\ ret.op = "query"
     /\ ret.args.rerank /\ use_reranker
     /\ ret.shape \in {"raise", "malformed"}
     /\ ret.out.error # "ZeroDivisionError") =>
        /\ ~ret.out.raised
        /\ ret.out.docs = Take(ret.out.prerank, ret.args.k)

(***************************************************************************)
(* Properties of RAGQuerySystem.query.                                     *)
(***************************************************************************)
\* RAG.query raised inside the call
RetrievalFailed == ret.retrieval.raised

\* the language model was invoked and raised
LlmFailed ==
    ~ret.retrieval.raised /\ ret.retrieval.docs # <<>> /\ ret.llm = "raise"

StartsWithError(answer) ==
    /\ answer # <<>>
    /\ answer[1] \in {"Error retrieving information: ", "Error generating answer: "}

\* C7: the citation-bearing call never raises, and on a failure of
\* retrieval or of the language model its answer starts with an error
\* description and its citations are empty.
C7_AskNeverRaises ==
    ret.op = "ask" =>
        /\ ~ret.out.raised
        /\ (RetrievalFailed \/ LlmFailed) =>
              StartsWithError(ret.out.answer) /\ ret.out.citations = <<>>

C7_Witness ==
    /\ ret.op = "ask"
    /\ LlmFailed
    /\ StartsWithError(ret.out.answer)

\* C8: on an empty corpus RAG.query returns the empty list without raising
\* and the citation wrapper returns the "no relevant information" answer.
C8_EmptyCorpus ==
    /\ (ret.op = "query" /\ store = <<>>) =>
          ~ret.out.raised /\ ret.out.docs = <<>>
    /\ (ret.op = "ask" /\ store = <<>>) =>
          /\ ~ret.out.raised
          /\ ret.out.answer = <<NoInformation>>
          /\ ret.out.citations = <<>>

\* C9: the snapshot and the index a query used were built from the chunks
\* the collection holds at the time of the query.
C9_IndexCurrent ==
    ret.op = "query" =>
        /\ bm25_data_cache.data = store
        /\ bm25_index.built => bm25_index.docs = Texts(store)

(***************************************************************************)
(* execute_tools_parallel(state, tools_dict): the selected tools run as    *)
(* tasks of a thread pool while the caller collects their results in the   *)
(* order of the futures dict, waiting at most 60 seconds for each.         *)
(***************************************************************************)
ToolNames == {"rag_search", "web_search", "supabase_query"}

\* sequences over S of length at most n
RECURSIVE SeqsUpTo(_, _)
SeqsUpTo(S, n) ==
    IF n = 0 THEN {<<>>}
    ELSE LET shorter == SeqsUpTo(S, n - 1)
         IN  shorter \cup {Append(s, x) : s \in shorter, x \in S}

\* what the date-extraction model answers
DateOutcomes == {"raise", "none", "range"}

ExtractedDates(outcome) ==
    IF outcome = "range"
    THEN [date_start |-> "2024-01-01", date_end |-> "2024-12-31"]
    ELSE NoDates

\* lines 34-40
GetToolArgs(tool_name, extracted) ==
    IF tool_name = "rag_search"
    THEN [query |-> "query", date_start |-> extracted.date_start,
          date_end |-> extracted.date_end]
    ELSE IF tool_name = "web_search"
    THEN [query |-> "query", conversation_context |-> "context"]
    ELSE [query |-> "query"]

\* what a tool returns when it completes
OwnResult(tool_name) == <<"result of ", tool_name>>

\* lines 56-59
TimeoutMessage(tool_name) ==
    <<"Error: ", "Tool ", tool_name, " timed out after 60 seconds">>

\* lines 60-63
ErrorMessage(tool_name) == <<"Error: ", "Error executing ", tool_name>>

\* the keys of the futures dict in iteration order: the registered names of
\* tool_calls, each at its first occurrence
FutureKeys(calls, registered) ==
    LET first(p) == calls[p] \in registered
                    /\ \A q \in 1..(p - 1) : calls[q] # calls[p]
        firsts == {p \in 1..Len(calls) : first(p)}
        nth(n) == CHOOSE p \in firsts :
                      Cardinality({q \in firsts : q < p}) = n - 1
    IN  [n \in 1..Cardinality(firsts) |-> calls[nth(n)]]

\* the dict keeps, for a name selected twice, the future submitted last
FutureOf(calls, tool_name) ==
    CHOOSE p \in 1..Len(calls) :
        /\ calls[p] = tool_name
        /\ \A q \in 1..Len(calls) : calls[q] = tool_name => q <= p

With(results, tool_name, value) ==
    [t \in DOMAIN results \cup {tool_name} |->
        IF t = tool_name THEN value ELSE results[t]]

InitTools ==
    /\ store = <<>>
    /\ bm25_index = Unbuilt
    /\ bm25_data_cache = Unset
    /\ use_reranker = FALSE
    /\ ret = NoRet
    /\ now = 0
    /\ last = NoRet
    /\ threads = NoThreads
    /\ tool_calls \in SeqsUpTo(ToolNames, MaxCalls)
    /\ tools_dict \in SUBSET ToolNames
    /\ date_llm \in {"undefined", "ready"}
    /\ pc = "start"
    /\ dates = NoDates
    /\ extraction = "not run"
    /\ futures = <<>>
    /\ collect = 0
    /\ tool_results = NoResults
    /\ timed_out = {}
    /\ NoTurn

\* lines 11-16: nothing selected
ReturnEmpty ==
    /\ pc = "start"
    /\ tool_calls = <<>>
    /\ pc' = "returned"
    /\ UNCHANGED <<tool_calls, tools_dict, date_llm, extraction, dates, futures, collect,
                   tool_results, timed_out>>
    /\ UNCHANGED ragVars
    /\ UNCHANGED <<decisionVars, agentVars>>

\* lines 18-31: the import of a global that create_tools alone defines, and
\* the extraction call inside its handler
ExtractDates(outcome) ==
    /\ pc = "start"
    /\ tool_calls # <<>>
    /\ IF "rag_search" \in Range(tool_calls)
       THEN IF date_llm = "undefined"
            THEN /\ pc' = "raised"
                 /\ dates' = dates
                 /\ extraction' = "ImportError"
            ELSE /\ pc' = "submit"
                 /\ dates' = ExtractedDates(outcome)
                 /\ extraction' = outcome
       ELSE pc' = "submit" /\ dates' = dates /\ extraction' = extraction
    /\ UNCHANGED <<tool_calls, tools_dict, date_llm, futures, collect,
                   tool_results, timed_out>>
    /\ UNCHANGED ragVars
    /\ UNCHANGED <<decisionVars, agentVars>>

\* lines 44-49: one task per selected name that is registered
Submit ==
    /\ pc = "submit"
    /\ futures' = [p \in 1..Len(tool_calls) |->
                     [tool |-> tool_calls[p],
                      args |-> GetToolArgs(tool_calls[p], dates),
                      state |-> IF tool_calls[p] \in tools_dict
                                THEN "running" ELSE "none"]]
    /\ collect' = 1
    /\ pc' = "collect"
    /\ UNCHANGED <<tool_calls, tools_dict, date_llm, extraction, dates, tool_results,
                   timed_out>>
    /\ UNCHANGED ragVars
    /\ UNCHANGED <<decisionVars, agentVars>>

\* a task completes: the tool returned or raised
ToolCompletes(p, how) ==
    /\ pc = "collect"
    /\ p \in 1..Len(futures)
    /\ futures[p].state = "running"
    /\ futures' = [futures EXCEPT ![p].state = how]
    /\ UNCHANGED <<tool_calls, tools_dict, date_llm, extraction, pc, dates, collect,
                   tool_results, timed_out>>
    /\ UNCHANGED ragVars
    /\ UNCHANGED <<decisionVars, agentVars>>

\* Entry without the handler of the timeout: a task still running is read
\* as if it had returned
EntryWithoutTimeout(tool_name, state) ==
    IF state = "raised" THEN ErrorMessage(tool_name) ELSE OwnResult(tool_name)

\* lines 52-63, one iteration: the entry of the tool the loop stands at
Entry(tool_name, state) ==
    IF state = "done" THEN OwnResult(tool_name)
    ELSE IF state = "raised" THEN ErrorMessage(tool_name)
    ELSE TimeoutMessage(tool_name)

\* lines 52-63, one iteration: future.result(timeout=60) returns, raises the
\* tool's exception, or (the task still running) times out
Collect ==
    /\ pc = "collect"
    /\ collect <= Len(FutureKeys(tool_calls, tools_dict))
    /\ LET tool_name == FutureKeys(tool_calls, tools_dict)[collect]
           state == futures[FutureOf(tool_calls, tool_name)].state
       IN  /\ tool_results' = With(tool_results, tool_name,
                                   Entry(tool_name, state))
           /\ timed_out' = IF state = "running"
                           THEN timed_out \cup {tool_name} ELSE timed_out
    /\ collect' = collect + 1
    /\ UNCHANGED <<tool_calls, tools_dict, date_llm, extraction, pc, dates, futures>>
    /\ UNCHANGED ragVars
    /\ UNCHANGED <<decisionVars, agentVars>>

\* line 44 and line 65: leaving the with block joins every task, then the
\* mapping is returned
ReturnResults ==
    /\ pc = "collect"
    /\ collect > Len(FutureKeys(tool_calls, tools_dict))
    /\ \A p \in 1..Len(futures) : futures[p].state # "running"
    /\ pc' = "returned"
    /\ UNCHANGED <<tool_calls, tools_dict, date_llm, extraction, dates, futures, collect,
                   tool_results, timed_out>>
    /\ UNCHANGED ragVars
    /\ UNCHANGED <<decisionVars, agentVars>>

NextTools ==
    \/ ReturnEmpty
    \/ \E outcome \in DateOutcomes : ExtractDates(outcome)
    \/ Submit
    \/ \E p \in 1..MaxCalls, how \in {"done", "raised"} : ToolCompletes(p, how)
    \/ Collect
    \/ ReturnResults

SpecTools == InitTools /\ [][NextTools]_vars

(***************************************************************************)
(* Properties of execute_tools_parallel.                                   *)
(***************************************************************************)
IsErrorString(value) == value[1] = "Error: "

\* C10: when the call returns, tool_results has exactly one entry per
\* selected tool that is registered; the entry of a tool that timed out or
\* raised is an error string, and every other entry is the tool's own result.
C10_PartialFailure ==
    (pc = "returned" /\ tool_calls # <<>>) =>
        /\ DOMAIN tool_results = Range(tool_calls) \cap tools_dict
        /\ \A t \in DOMAIN tool_results :
              LET state == futures[FutureOf(tool_calls, t)].state
              IN  IF t \in timed_out \/ state = "raised"
                  THEN IsErrorString(tool_results[t])
                  ELSE tool_results[t] = OwnResult(t)

C10_Witness ==
    /\ pc = "returned"
    /\ \E t \in timed_out, u \in DOMAIN tool_results, v \in Range(tool_calls) :
          /\ IsErrorString(tool_results[t])
          /\ u # t
          /\ tool_results[u] = OwnResult(u)
          /\ v \notin tools_dict

(***************************************************************************)
(* Progress of execute_tools_parallel.  The caller's own steps always go   *)
(* on: the wait of future.result is bounded by its timeout, so Collect is  *)
(* taken whether or not the task has ended.  Nothing obliges a tool to     *)
(* end: ToolCompletes carries no fairness, a task that never takes it is a *)
(* hung tool.  Leaving the with block (ThreadPoolExecutor.__exit__ calls   *)
(* shutdown(wait=True)) waits for every task.                              *)
(***************************************************************************)
CallerFairness ==
    /\ WF_vars(ReturnEmpty)
    /\ WF_vars(\E outcome \in DateOutcomes : ExtractDates(outcome))
    /\ WF_vars(Submit)
    /\ WF_vars(Collect)
    /\ WF_vars(ReturnResults)

SpecToolsFair == InitTools /\ [][NextTools]_vars /\ CallerFairness

\* C11: once the selected tools are submitted, execute_tools_parallel
\* eventually returns its mapping, even when a selected tool never completes.
C11_HungToolReturns == (pc = "collect") ~> (pc = "returned")

(***************************************************************************)
(* EnterpriseAgent.chat: one turn of the compiled graph (agent node,       *)
(* conditional edge, tools node, edge back to the agent) under a           *)
(* checkpointer, inside the handler of chat.  A message is a record        *)
(* [type, content, tool_calls]; a reply is the sequence of the parts its   *)
(* string is formatted from.                                               *)
(***************************************************************************)
RecursionLimit == 5     \* graph steps allowed in one turn

HumanMessage == [type |-> "human", content |-> "query", tool_calls |-> FALSE]

AIMessage(content) == [type |-> "ai", content |-> content, tool_calls |-> FALSE]

\* a response of the model bound to the tools that asks for tools
ToolCallMessage == [type |-> "ai", content |-> "", tool_calls |-> TRUE]

ToolMessage(content) == [type |-> "tool", content |-> content, tool_calls |-> FALSE]

TroubleMessage == "I'm having trouble processing your request. Please try again."

ErrorAgainMessage == "I encountered an error. Please try again."

\* what the invocation with tools (bind_tools included), and the
\* invocation without them, can do
PrimaryOutcomes == {"answer", "tool_calls", "BadRequestError", "Exception"}
FallbackOutcomes == {"answer", "Exception"}

\* what call_model gives: whether an exception left it, the messages of the
\* update it returns, and the invocations of the model it made
Returns(message, invocations) ==
    [raised |-> FALSE, messages |-> <<message>>, invocations |-> invocations]

\* call_model without the handlers around the second invocation
CallModelUnguarded(primary, fallback) ==
    CASE primary = "answer" -> Returns(AIMessage("answer"), <<"with tools">>)
      [] primary = "tool_calls" -> Returns(ToolCallMessage, <<"with tools">>)
      [] OTHER ->
            IF fallback = "answer"
            THEN Returns(AIMessage("answer"), <<"with tools", "without tools">>)
            ELSE [raised |-> TRUE, messages |-> <<>>,
                  invocations |-> <<"with tools", "without tools">>]

\* agent.py lines 30-66
CallModel(primary, fallback) ==
    CASE primary = "answer" -> Returns(AIMessage("answer"), <<"with tools">>)
      [] primary = "tool_calls" -> Returns(ToolCallMessage, <<"with tools">>)
      [] primary = "BadRequestError" ->
            Returns(IF fallback = "answer" THEN AIMessage("answer")
                    ELSE AIMessage(TroubleMessage),
                    <<"with tools", "without tools">>)
      [] OTHER ->
            Returns(IF fallback = "answer" THEN AIMessage("answer")
                    ELSE AIMessage(ErrorAgainMessage),
                    <<"with tools", "without tools">>)

\* a conditional edge that ends the turn whatever the last message holds
ShouldContinueEnds(msgs) == "end"

\* agent.py lines 20-28
ShouldContinue(msgs) ==
    IF msgs[Len(msgs)].tool_calls THEN "tools" ELSE "end"

\* the threads a checkpointer may hold when a turn begins
Threads == {<<>>, <<HumanMessage, AIMessage("answer")>>}

\* what a read or a write of the checkpointer can do
CheckpointOutcomes == {"ok", "raise"}

\* what the tools node can do with the calls of the last message
ToolOutcomes == {"result", "error_message", "raise"}

\* chat without its handler: an exception of graph.invoke leaves the call
ChatReplyUncaught(failed, msgs) ==
    IF failed THEN [raised |-> TRUE, value |-> <<>>]
    ELSE IF msgs # <<>> THEN [raised |-> FALSE, value |-> <<msgs[Len(msgs)].content>>]
    ELSE [raised |-> FALSE, value |-> <<"No response generated">>]

\* agent.py lines 141-160: what chat returns when graph.invoke raised
\* (failed) or returned a state with these messages
ChatReply(failed, msgs) ==
    IF failed
    THEN [raised |-> FALSE,
          value |-> <<"I encountered an error while processing your request: ",
                      "error">>]
    ELSE IF msgs # <<>> THEN [raised |-> FALSE, value |-> <<msgs[Len(msgs)].content>>]
    ELSE [raised |-> FALSE, value |-> <<"No response generated">>]

InitChat ==
    /\ store = <<>>
    /\ bm25_index = Unbuilt
    /\ bm25_data_cache = Unset
    /\ use_reranker = FALSE
    /\ ret = NoRet
    /\ now = 0
    /\ last = NoRet
    /\ threads = NoThreads
    /\ NoToolCall
    /\ decision = NoDecision
    /\ tool_call_details = <<>>
    /\ messages \in Threads
    /\ node = "idle"
    /\ supersteps = 0
    /\ called = NoCall
    /\ reply = NoReply

\* lines 144-145: graph.invoke loads the thread and adds the new message
Invoke(checkpoint) ==
    /\ node = "idle"
    /\ IF checkpoint = "raise"
       THEN node' = "raised" /\ messages' = messages
       ELSE node' = "agent" /\ messages' = Append(messages, HumanMessage)
    /\ UNCHANGED <<supersteps, called, reply>>
    /\ UNCHANGED <<ragVars, toolVars, decisionVars>>

\* the agent node, the checkpoint of its step and the conditional edge
AgentNode(primary, fallback, checkpoint) ==
    /\ node = "agent"
    /\ LET out == CallModel(primary, fallback)
       IN  IF supersteps >= RecursionLimit
           THEN node' = "raised" /\ UNCHANGED <<messages, supersteps, called>>
           ELSE /\ called' = [primary |-> primary, fallback |-> fallback,
                              out |-> out]
                /\ IF out.raised
                   THEN node' = "raised" /\ UNCHANGED <<messages, supersteps>>
                   ELSE /\ messages' = messages \o out.messages
                        /\ supersteps' = supersteps + 1
                        /\ node' = IF checkpoint = "raise" THEN "raised"
                                   ELSE ShouldContinue(messages')
    /\ UNCHANGED reply
    /\ UNCHANGED <<ragVars, toolVars, decisionVars>>

\* the tools node, the checkpoint of its step and the edge back to the agent
ToolsNode(outcome, checkpoint) ==
    /\ node = "tools"
    /\ IF supersteps >= RecursionLimit \/ outcome = "raise"
       THEN node' = "raised" /\ UNCHANGED <<messages, supersteps>>
       ELSE /\ messages' = Append(messages,
                              ToolMessage(IF outcome = "result" THEN "tool result"
                                          ELSE "Error: tool failed"))
            /\ supersteps' = supersteps + 1
            /\ node' = IF checkpoint = "raise" THEN "raised" ELSE "agent"
    /\ UNCHANGED <<called, reply>>
    /\ UNCHANGED <<ragVars, toolVars, decisionVars>>

\* lines 147-160: chat returns to its caller
Chat ==
    /\ node \in {"end", "raised"}
    /\ reply' = ChatReply(node = "raised", messages)
    /\ node' = IF node = "raised" THEN "replied after failure" ELSE "replied"
    /\ UNCHANGED <<messages, supersteps, called>>
    /\ UNCHANGED <<ragVars, toolVars, decisionVars>>

NextChat ==
    \/ \E checkpoint \in CheckpointOutcomes : Invoke(checkpoint)
    \/ \E primary \in PrimaryOutcomes, fallback \in FallbackOutcomes,
          checkpoint \in CheckpointOutcomes :
          AgentNode(primary, fallback, checkpoint)
    \/ \E outcome \in ToolOutcomes, checkpoint \in CheckpointOutcomes :
          ToolsNode(outcome, checkpoint)
    \/ Chat

SpecChat == InitChat /\ [][NextChat]_vars

Replied == node \in {"replied", "replied after failure"}

\* C12: chat always returns a string and never raises, whatever failed in
\* the graph, the language model, the tools or the checkpointer.
C12_ChatNeverRaises ==
    Replied => ~reply.raised /\ reply.value # <<>>

C12_Witness ==
    /\ node = "replied after failure"
    /\ supersteps > 0
    /\ reply.value[1] = "I encountered an error while processing your request: "

(***************************************************************************)
(* decision_node: the structured decision of the model is filtered into    *)
(* the tool names of the turn, which execute_tools_parallel then runs.     *)
(* Confidences are given in tenths.                                        *)
(***************************************************************************)
MinToolConfidence == 5      \* MIN_TOOL_CONFIDENCE = 0.5
DirectConfidence == 7       \* the threshold of a direct answer, 0.7

Confidences == {4, 5, 6}
DecisionConfidences == {6, 8}

\* ToolCallDetail
Details == [tool_name : ToolNames, confidence : Confidences]

\* ToolDecision
Decisions ==
    [direct_answer : BOOLEAN, confidence : DecisionConfidences,
     tool_calls : SeqsUpTo(Details, MaxCalls)]

\* the structured model answers or raises
DecisionOutcomes == {"decision", "raise"}

\* the loop of lines 74-77 without the test on seen_tools
SeenToolsWithRepeats(calls) ==
    LET passes(tc) == tc.confidence > MinToolConfidence
    IN  SelectSeq(calls, passes)

\* lines 74-79: the values of seen_tools in insertion order
SeenTools(calls) ==
    LET kept == {p \in 1..Len(calls) :
                    /\ calls[p].confidence > MinToolConfidence
                    /\ \A q \in 1..(p - 1) :
                          calls[q].confidence > MinToolConfidence
                              => calls[q].tool_name # calls[p].tool_name}
        nth(n) == CHOOSE p \in kept : Cardinality({q \in kept : q < p}) = n - 1
    IN  [n \in 1..Cardinality(kept) |-> calls[nth(n)]]

\* lines 42-94: the state decision_node returns
DecisionNode(d) ==
    IF d.direct_answer /\ d.confidence > DirectConfidence
    THEN [tool_calls |-> <<>>, tool_call_details |-> <<>>, direct_answer |-> TRUE]
    ELSE LET unique_tool_details == SeenTools(d.tool_calls)
         IN  [tool_calls |-> [i \in 1..Len(unique_tool_details) |->
                                 unique_tool_details[i].tool_name],
              tool_call_details |-> unique_tool_details,
              direct_answer |-> FALSE]

InitDecide ==
    /\ store = <<>>
    /\ bm25_index = Unbuilt
    /\ bm25_data_cache = Unset
    /\ use_reranker = FALSE
    /\ ret = NoRet
    /\ now = 0
    /\ last = NoRet
    /\ threads = NoThreads
    /\ tool_calls = <<>>
    /\ tools_dict = ToolNames
    /\ date_llm = "ready"
    /\ pc = "decide"
    /\ dates = NoDates
    /\ extraction = "not run"
    /\ futures = <<>>
    /\ collect = 0
    /\ tool_results = NoResults
    /\ timed_out = {}
    /\ decision \in Decisions
    /\ tool_call_details = <<>>
    /\ messages = <<>>
    /\ node = "idle"
    /\ supersteps = 0
    /\ called = NoCall
    /\ reply = NoReply

\* decision_node(state, llm, tools_dict); its result is the state that
\* execute_tools_parallel is called with
Decide(outcome) ==
    /\ pc = "decide"
    /\ IF outcome = "raise"
       THEN pc' = "raised" /\ UNCHANGED <<tool_calls, tool_call_details>>
       ELSE /\ pc' = "start"
            /\ tool_calls' = DecisionNode(decision).tool_calls
            /\ tool_call_details' = DecisionNode(decision).tool_call_details
    /\ UNCHANGED <<tools_dict, date_llm, extraction, dates, futures, collect, tool_results,
                   timed_out, decision>>
    /\ UNCHANGED <<ragVars, agentVars>>

NextDecide ==
    \/ \E outcome \in DecisionOutcomes : Decide(outcome)
    \/ NextTools

SpecDecide == InitDecide /\ [][NextDecide]_vars

\* the tasks submitted for a tool name in this turn
Invocations(t) ==
    {p \in 1..Len(futures) : futures[p].tool = t /\ futures[p].state # "none"}

\* C13: the tool names decision_node returns are distinct, each was
\* proposed with confidence >= 0.5, and execute_tools_parallel invokes each
\* of them at most once in the turn.
C13_DistinctConfidentOnce ==
    pc # "decide" =>
        /\ \A i, j \in 1..Len(tool_calls) : tool_calls[i] = tool_calls[j] => i = j
        /\ Len(tool_call_details) = Len(tool_calls)
        /\ \A i \in 1..Len(tool_calls) :
              /\ tool_call_details[i].tool_name = tool_calls[i]
              /\ tool_call_details[i].confidence >= MinToolConfidence
              /\ tool_call_details[i] \in Range(decision.tool_calls)
        /\ \A t \in ToolNames : Cardinality(Invocations(t)) <= 1

C13_Witness ==
    /\ pc = "returned"
    /\ Len(decision.tool_calls) = MaxCalls
    /\ \E p, q \in 1..Len(decision.tool_calls) :
          /\ p < q
          /\ decision.tool_calls[p].tool_name = decision.tool_calls[q].tool_name
          /\ decision.tool_calls[p].confidence > MinToolConfidence
          /\ decision.tool_calls[q].confidence > MinToolConfidence
    /\ \E p \in 1..Len(decision.tool_calls) :
          decision.tool_calls[p].confidence = MinToolConfidence
    /\ Len(tool_calls) = 1
    /\ Cardinality(Invocations(tool_calls[1])) = 1

(***************************************************************************)
(* The same call made twice on one RAG instance over a collection that     *)
(* does not change: the first call builds the lexical index, the later     *)
(* ones reuse it.  The clock the recency score reads goes on between the   *)
(* calls.                                                                  *)
(***************************************************************************)
MaxDays == 1            \* days that pass while the calls are made

\* calls without reranking
RepeatArgs ==
    IF last = NoRet
    THEN {a \in QueryArgs : ~a.rerank /\ a.rerank_top_k = MaxRerankTopK}
    ELSE {last.args}

InitRepeat ==
    /\ store \in Collections
    /\ bm25_index = Unbuilt
    /\ bm25_data_cache = Unset
    /\ use_reranker \in BOOLEAN
    /\ ret = NoRet
    /\ now = 0
    /\ last = NoRet
    /\ threads = NoThreads
    /\ NoToolCall
    /\ NoTurn

\* the caller keeps the list of the first call and the day it was made
Keep ==
    /\ ret # NoRet
    /\ last = NoRet
    /\ last' = [op |-> ret.op, args |-> ret.args, out |-> ret.out, at |-> now]
    /\ ret' = NoRet
    /\ UNCHANGED <<store, bm25_index, bm25_data_cache, use_reranker, threads, now>>
    /\ UNCHANGED toolVars
    /\ UNCHANGED <<decisionVars, agentVars>>

\* midnight passes: datetime.now() is one day later
Midnight ==
    /\ ret = NoRet
    /\ now < MaxDays
    /\ now' = now + 1
    /\ UNCHANGED <<store, bm25_index, bm25_data_cache, use_reranker, threads, ret, last>>
    /\ UNCHANGED toolVars
    /\ UNCHANGED <<decisionVars, agentVars>>

NextRepeat ==
    \/ \E a \in WhenIdle(RepeatArgs) : Query(a, "ranked")
    \/ Keep
    \/ Return
    \/ Midnight

SpecRepeat == InitRepeat /\ [][NextRepeat]_vars

\* a call was made again with the arguments of the kept one
Repeated == ret.op = "query" /\ last # NoRet

InRange(c) ==
    /\ Parses(c.date)
    /\ ~Outside(c.date, DateBound(ret.args.start), DateBound(ret.args.end))

\* C15: with a date range given, a chunk whose content_date is missing or
\* unparsable is returned only after every returned in-range chunk.
C15_UndatedLast ==
    (Returned /\ HasBound(ret.args)) =>
        \A i, j \in 1..Len(ret.out.docs) :
            (~Parses(ret.out.docs[i].date) /\ InRange(ret.out.docs[j])) => j < i

\* C16: without reranking, the returned list is in non-increasing order of
\* final_score, whatever date_range and recency_boost are.
C16_SortedByFinalScore ==
    (Returned /\ ~ret.out.reranked) =>
        /\ ret.out.docs = Take(ret.out.pool, Len(ret.out.docs))
        /\ \A i, j \in 1..Len(ret.out.docs) :
              i < j => ret.out.final[i] >= ret.out.final[j]

(***************************************************************************)
(* Dates: malformed metadata and the recency score.                        *)
(***************************************************************************)
\* C17: with date filtering and recency boosting both active, a query over
\* a non-empty collection completes without raising, whatever the
\* content_date values of the chunks are (reranking aside).
C17_DatesNeverRaise ==
    (/\ ret.op = "query"
     /\ HasBound(ret.args) /\ ret.args.recency_boost
     /\ ~(ret.args.rerank /\ use_reranker)
     /\ store # <<>>) =>
        ~ret.out.raised

(***************************************************************************)
(* RAGQuerySystem.query when nothing was retrieved.                        *)
(***************************************************************************)
NothingRetrieved ==
    ret.op = "ask" /\ ~ret.retrieval.raised /\ ret.retrieval.docs = <<>>

\* C18: when retrieval yields no chunks the citation-bearing call returns
\* the "no relevant information" answer with empty citations and without
\* invoking the language model, and no failure of retrieval or of the
\* language model is answered that way.
C18_NoInformation ==
    /\ NothingRetrieved =>
          /\ ~ret.out.raised
          /\ ret.out.answer = <<NoInformation>>
          /\ ret.out.citations = <<>>
          /\ ~ret.out.llm_called
          /\ ~StartsWithError(ret.out.answer)
    /\ (ret.op = "ask" /\ (RetrievalFailed \/ LlmFailed)) =>
          ret.out.answer # <<NoInformation>>

C18_Witness ==
    /\ NothingRetrieved
    /\ store # <<>>
    /\ ret.llm = "raise"
    /\ ret.out.answer = <<NoInformation>>

\* the pairs the semantic search of the call returned
VectorResults ==
    SimilaritySearch(store, InitialK(ret.args, use_reranker), ret.args.filter)

\* C19: the similarity of every chunk of the semantic result set lies in
\* (0, 1] and decreases strictly with the distance, distance 0 being the
\* most similar.
C19_SimilarityMonotone ==
    ret.op = "query" =>
        LET vector_results == VectorResults
        IN  \A i, j \in 1..Len(vector_results) :
                /\ NormalizedVector(vector_results[i].score) > 0
                /\ NormalizedVector(vector_results[i].score) <= One
                /\ vector_results[i].score < vector_results[j].score =>
                      NormalizedVector(vector_results[i].score)
                          > NormalizedVector(vector_results[j].score)

\* the recency loop of the call reaches this candidate
Boosted(c) ==
    \/ ~HasBound(ret.args)
    \/ DateClass(c.date, DateBound(ret.args.start), DateBound(ret.args.end))
           # "dropped"

\* C20: the recency score of every candidate is defined and lies in
\* [0, 1]; it is 1.0 for a content_date of today, smaller for an older
\* date, and 0.0 for an absent or invalid content_date.
C20_RecencyInUnitInterval ==
    (ret.op = "query" /\ ret.args.recency_boost) =>
        \A c \in Range(ret.out.candidates) :
            Boosted(c) =>
                /\ ~RecencyRaises(c.date)
                /\ Recency(c.date) >= 0
                /\ Recency(c.date) <= One
                /\ c.date = Naive(now) => Recency(c.date) = One
                /\ ~Parses(c.date) => Recency(c.date) = 0
                /\ \A d \in Range(ret.out.candidates) :
                      (/\ c.date.kind = "naive" /\ d.date.kind = "naive"
                       /\ c.date.day < d.date.day /\ d.date.day <= now) =>
                          Recency(c.date) < Recency(d.date)

(***************************************************************************)
(* The over-fetch of the semantic search.                                  *)
(***************************************************************************)
\* the semantic search of the call was reached
Searched == ret.op = "query" /\ ret.out.initial_k # 0

\* C21: the size asked of the semantic search is at least k, at least
\* rerank_top_k when reranking follows, and at least 3k when a date bound is
\* set or recency_boost is true.
C21_OverFetch ==
    Searched =>
        /\ ret.out.initial_k >= ret.args.k
        /\ (ret.args.rerank /\ use_reranker) =>
              ret.out.initial_k >= ret.args.rerank_top_k
        /\ (HasBound(ret.args) \/ ret.args.recency_boost) =>
              ret.out.initial_k >= 3 * ret.args.k

C21_Witness ==
    /\ Searched
    /\ ret.args.rerank /\ use_reranker
    /\ ~ret.args.recency_boost /\ HasBound(ret.args)
    /\ ret.args.k = MaxK
    /\ ret.out.initial_k = 3 * MaxK
    /\ ret.out.initial_k > ret.args.rerank_top_k

(***************************************************************************)
(* The hybrid ranking.                                                     *)
(***************************************************************************)
\* C22: the hybrid ranking holds every candidate of the snapshot once, a
\* higher hybrid score always precedes a lower one, and candidates of equal
\* score stand in the order of the corpus iteration.
C22_StableDescending ==
    Searched =>
        /\ Len(ret.out.ranking) = Len(bm25_data_cache.data)
        /\ \A p \in 1..Len(bm25_data_cache.data) :
              \E i \in 1..Len(ret.out.ranking) : ret.out.ranking[i].idx = p
        /\ \A i, j \in 1..Len(ret.out.ranking) :
              i < j =>
                  \/ ret.out.ranking[i].score > ret.out.ranking[j].score
                  \/ /\ ret.out.ranking[i].score = ret.out.ranking[j].score
                     /\ ret.out.ranking[i].idx < ret.out.ranking[j].idx

C22_Witness ==
    /\ Searched
    /\ \E i, j, l \in 1..Len(ret.out.ranking) :
          /\ i < j /\ j < l
          /\ ret.out.ranking[i].score > ret.out.ranking[j].score
          /\ ret.out.ranking[i].idx > ret.out.ranking[j].idx
          /\ ret.out.ranking[j].score = ret.out.ranking[l].score
          /\ ret.out.ranking[j].score > 0

(***************************************************************************)
(* The weight hybrid_alpha: plain calls (no date range, no recency boost,  *)
(* no reranking) for every alpha from 0.0 to 1.0 in tenths.                *)
(***************************************************************************)
AlphaArgs ==
    [k : 1..MaxK, filter : Filters, rerank : {FALSE},
     rerank_top_k : {MaxRerankTopK}, start : {Absent}, end : {Absent},
     recency_boost : {FALSE}, hybrid_alpha : 0..AlphaOne]

InitAlpha ==
    /\ store \in Collections
    /\ bm25_index = Unbuilt
    /\ bm25_data_cache = Unset
    /\ use_reranker = FALSE
    /\ ret = NoRet
    /\ now = 0
    /\ last = NoRet
    /\ threads = NoThreads
    /\ NoToolCall
    /\ NoTurn

NextAlpha ==
    \/ \E a \in WhenIdle(AlphaArgs) : Query(a, "ranked")
    \/ Return

SpecAlpha == InitAlpha /\ [][NextAlpha]_vars

\* the place of the candidate of snapshot position p in a ranked list
PlaceOf(scored, p) == CHOOSE i \in 1..Len(scored) : scored[i].idx = p

\* A has the higher normalized semantic similarity and the lower normalized
\* lexical score
SemanticOverLexical(A, B) == A.vector > B.vector /\ A.bm25 < B.bm25

\* C23: for a candidate A that is semantically stronger and lexically
\* weaker than a candidate B, hybrid(A) - hybrid(B) grows strictly with
\* hybrid_alpha, and A, once ranked above B, stays above B for every larger
\* hybrid_alpha.
C23_AlphaMonotone ==
    Searched =>
        \A ranking \in {ret.out.ranking}, vector_results \in {VectorResults} :
          \A higher \in (ret.args.hybrid_alpha + 1)..AlphaOne :
            \A again \in {Ranking(CombinedResults(bm25_data_cache.data,
                                                  bm25_index.docs,
                                                  vector_results, higher))} :
              \A i, j \in 1..Len(ranking) :
                SemanticOverLexical(ranking[i], ranking[j]) =>
                  /\ again[PlaceOf(again, ranking[i].idx)].score
                       - again[PlaceOf(again, ranking[j].idx)].score
                         > ranking[i].score - ranking[j].score
                  /\ i < j => PlaceOf(again, ranking[i].idx)
                                < PlaceOf(again, ranking[j].idx)

C23_Witness ==
    /\ Searched
    /\ ret.args.hybrid_alpha = DefaultAlpha
    /\ \E i, j \in 1..Len(ret.out.ranking) :
          /\ SemanticOverLexical(ret.out.ranking[i], ret.out.ranking[j])
          /\ i < j
    /\ \E i, j \in 1..Len(ret.out.ranking) :
          /\ SemanticOverLexical(ret.out.ranking[i], ret.out.ranking[j])
          /\ j < i

(***************************************************************************)
(* Reranker.rerank: the answer of the collaborator mapped to documents.    *)
(***************************************************************************)
\* the reranker was invoked on a non-empty list and its collaborator answered
Answered ==
    /\ ret.op = "query"
    /\ ret.args.rerank /\ use_reranker
    /\ ret.out.prerank # <<>>
    /\ ret.shape # "raise"

\* what the collaborator answered in the call
Answer == RerankResults(ret.shape, Len(ret.out.prerank), ret.args.k)

\* the items of the answer, by position, whose index is an int within
\* [0, len(candidates))
Usable ==
    {p \in 1..Len(Answer) :
        /\ Answer[p].kind = "int"
        /\ 0 <= Answer[p].index
        /\ Answer[p].index < Len(ret.out.prerank)}

\* C24: the reranker does not raise on any answer; its output holds, in
\* the order of the answer, the candidate of every item whose index is an
\* int within [0, len(candidates)), and nothing for any other item.
C24_IndicesMapped ==
    Answered =>
        /\ ~ret.out.raised
        /\ Len(ret.out.docs) = Cardinality(Usable)
        /\ \A p \in Usable :
              ret.out.docs[Cardinality({q \in Usable : q <= p})]
                  = ret.out.prerank[Answer[p].index + 1]
        /\ \A i \in 1..Len(ret.out.docs) : ret.out.docs[i] \in Range(ret.out.prerank)

C24_Witness ==
    /\ Answered
    /\ ret.shape = "mixed"
    /\ Len(ret.out.prerank) > 1
    /\ Len(ret.out.docs) = 2
    /\ ret.out.docs[1] = ret.out.prerank[Len(ret.out.prerank)]
    /\ ret.out.docs[2] = ret.out.prerank[1]

(***************************************************************************)
(* The lazy build of the lexical index.                                    *)
(***************************************************************************)
\* a call of RAG.query is made in this step
Calls == ret = NoRet /\ ret'.op \in {"query", "ask"}

\* C25: the corpus is not read before the first query, the first query
\* reads it and builds the index, and no later query reads it again.
C25_BuiltOnce ==
    [][/\ (~bm25_data_cache.set /\ bm25_data_cache'.set) => Calls
       /\ (Calls /\ ~bm25_data_cache.set) =>
             ret'.read /\ bm25_data_cache'.set /\ bm25_index'.built
       /\ (Calls /\ bm25_data_cache.set) => ~ret'.read]_vars

(***************************************************************************)
(* Date extraction that fails or is unavailable.                           *)
(***************************************************************************)
\* rag_search is selected and registered, and the extraction model raised
\* or was never created
ExtractionFailed ==
    /\ "rag_search" \in Range(tool_calls)
    /\ "rag_search" \in tools_dict
    /\ pc \notin {"idle", "decide", "start"}
    /\ date_llm = "undefined" \/ extraction = "raise"

\* C26: when rag_search is selected and the date extraction raises or its
\* model is not initialised, execute_tools_parallel does not raise and
\* rag_search is still invoked, with date_start and date_end both None.
C26_ProceedsWithoutDates ==
    ExtractionFailed =>
        /\ pc # "raised"
        /\ pc # "submit" =>
              \E p \in 1..Len(futures) :
                  /\ futures[p].tool = "rag_search"
                  /\ futures[p].state # "none"
                  /\ futures[p].args.date_start = "None"
                  /\ futures[p].args.date_end = "None"

(***************************************************************************)
(* The fallback chain of call_model.                                       *)
(***************************************************************************)
Failed(outcome) == outcome \in {"BadRequestError", "Exception"}

\* C27: call_model never raises and returns exactly one message: the
\* response of the model bound to the tools when that call succeeds;
\* otherwise it invokes the model once more, without tools, and returns its
\* response, or a canned assistant message when that call fails too.
C27_FallbackChain ==
    called # NoCall =>
        /\ ~called.out.raised
        /\ Len(called.out.messages) = 1
        /\ called.out.invocations =
              IF Failed(called.primary)
              THEN <<"with tools", "without tools">> ELSE <<"with tools">>
        /\ (Failed(called.primary) /\ Failed(called.fallback)) =>
              /\ called.out.messages[1].type = "ai"
              /\ ~called.out.messages[1].tool_calls
              /\ called.out.messages[1].content
                    \in {TroubleMessage, ErrorAgainMessage}
        /\ (Failed(called.primary) /\ ~Failed(called.fallback)) =>
              called.out.messages[1] = AIMessage("answer")

C27_Witness ==
    /\ called.primary = "BadRequestError"
    /\ called.fallback = "Exception"
    /\ called.out.messages = <<AIMessage(TroubleMessage)>>
    /\ messages[Len(messages)] = AIMessage(TroubleMessage)

(***************************************************************************)
(* Threads that call RAG.query on one instance while the collection        *)
(* changes.  Each step is one read or one assignment of a field of the     *)
(* instance, or one call of the vector store.                              *)
(***************************************************************************)
Moves(t, pc2) == threads' = [threads EXCEPT ![t].pc = pc2]

\* line 91: query calls _build_bm25_index
Enter(t) ==
    /\ threads[t].pc = "idle"
    /\ Moves(t, "check")
    /\ UNCHANGED <<store, bm25_index, bm25_data_cache>>

\* line 50
CheckFields(t) ==
    /\ threads[t].pc = "check"
    /\ Moves(t, IF NeedsBuild(bm25_index, bm25_data_cache)
                THEN "read" ELSE "scores")
    /\ UNCHANGED <<store, bm25_index, bm25_data_cache>>

\* line 51: data = self.vector_store.view_data()
ReadCorpus(t) ==
    /\ threads[t].pc = "read"
    /\ threads' = [threads EXCEPT ![t].pc = "assign", ![t].data = store]
    /\ UNCHANGED <<store, bm25_index, bm25_data_cache>>

\* line 52: self._bm25_data_cache = data
AssignCache(t) ==
    /\ threads[t].pc = "assign"
    /\ bm25_data_cache' = [set |-> TRUE, data |-> threads[t].data]
    /\ Moves(t, "build")
    /\ UNCHANGED <<store, bm25_index>>

\* lines 53-57: self._bm25_index = BM25Okapi(tokenized_docs)
AssignIndex(t) ==
    /\ threads[t].pc = "build"
    /\ IF BuildRaises(threads[t].data)
       THEN Moves(t, "raised") /\ bm25_index' = bm25_index
       ELSE /\ bm25_index' = [built |-> TRUE, docs |-> Texts(threads[t].data)]
            /\ Moves(t, "scores")
    /\ UNCHANGED <<store, bm25_data_cache>>

\* line 99: bm25_scores = self._bm25_index.get_scores(tokenized_query)
ReadIndex(t) ==
    /\ threads[t].pc = "scores"
    /\ threads' = [threads EXCEPT ![t].pc = "snapshot",
                                  ![t].index = bm25_index]
    /\ UNCHANGED <<store, bm25_index, bm25_data_cache>>

\* line 102: data = self._bm25_data_cache
ReadCache(t) ==
    /\ threads[t].pc = "snapshot"
    /\ threads' = [threads EXCEPT ![t].pc = "combine",
                                  ![t].cache = bm25_data_cache.data]
    /\ UNCHANGED <<store, bm25_index, bm25_data_cache>>

\* lines 107-127: bm25_scores[idx] for each position of the snapshot
Combine(t) ==
    /\ threads[t].pc = "combine"
    /\ Moves(t, IF Len(threads[t].index.docs) < Len(threads[t].cache)
                THEN "raised" ELSE "done")
    /\ UNCHANGED <<store, bm25_index, bm25_data_cache>>

\* the call returns or raises
Leave(t) ==
    /\ threads[t].pc \in {"done", "raised"}
    /\ threads' = [threads EXCEPT ![t] = NotInQuery]
    /\ UNCHANGED <<store, bm25_index, bm25_data_cache>>

Step(t) ==
    /\ \/ Enter(t)
       \/ CheckFields(t)
       \/ ReadCorpus(t)
       \/ AssignCache(t)
       \/ AssignIndex(t)
       \/ ReadIndex(t)
       \/ ReadCache(t)
       \/ Combine(t)
       \/ Leave(t)
    /\ UNCHANGED <<use_reranker, ret, now, last>>
    /\ UNCHANGED <<toolVars, decisionVars, agentVars>>

\* the collection grows while the threads run
Ingest(i) ==
    /\ AddDocuments(i)
    /\ i <= MaxChunks

NextShared ==
    \/ \E t \in Workers : Step(t)
    \/ \E i \in ChunkIds : Ingest(i)

SpecShared == InitStore /\ [][NextShared]_vars

\* the thread has read the index and the snapshot of its query
HasRead(t) == threads[t].pc \in {"combine", "done", "raised"}
                 /\ threads[t].index.built

\* C28: in every thread, the index whose scores a query uses and the
\* snapshot it walks come from the same read of the collection: the index
\* was built from exactly the texts of the snapshot, position by position.
C28_SameCorpusRead ==
    \A t \in Workers :
        HasRead(t) => threads[t].index.docs = Texts(threads[t].cache)

(***************************************************************************)
(* The chunk a candidate stands for.                                       *)
(***************************************************************************)
\* C29: every candidate of the pool is the chunk of the snapshot position
\* it was scored for, with that chunk's content_date and metadata, also
\* when two chunks have the same text; and a list returned without
\* reranking holds no chunk twice.
C29_OwnChunk ==
    Returned =>
        /\ \A i \in 1..Len(ret.out.pool) :
              ret.out.pool[i] = bm25_data_cache.data[ret.out.origin[i]]
        /\ ~ret.out.reranked =>
              \A i, j \in 1..Len(ret.out.docs) :
                  ret.out.docs[i] = ret.out.docs[j] => i = j

(***************************************************************************)
(* The control flow of the compiled graph.                                 *)
(***************************************************************************)
LastMessage(msgs) == msgs[Len(msgs)]

Canned(message) == message.content \in {TroubleMessage, ErrorAgainMessage}

\* C30: a turn enters the graph at the agent node; the tools node is
\* entered only by the step of the agent node that added a message with tool
\* calls; the tools node hands control back to the agent node; and the turn
\* ends only by a step of the agent node that added a message without tool
\* calls, which a canned fallback message of call_model is.  (A step that
\* raises aborts the turn into the handler of chat.)
C30_ControlFlow ==
    [][/\ (node = "idle" /\ node' # "idle") => node' \in {"agent", "raised"}
       /\ (node # "tools" /\ node' = "tools") =>
             /\ node = "agent"
             /\ Len(messages') = Len(messages) + 1
             /\ LastMessage(messages').tool_calls
       /\ (node = "tools" /\ node' # "tools") => node' \in {"agent", "raised"}
       /\ (node # "end" /\ node' = "end") =>
             /\ node = "agent"
             /\ Len(messages') = Len(messages) + 1
             /\ ~LastMessage(messages').tool_calls
       /\ (node = "agent" /\ node' \notin {"agent", "raised"}) =>
             node' = IF LastMessage(messages').tool_calls
                     THEN "tools" ELSE "end"
       /\ (node = "agent" /\ Len(messages') = Len(messages) + 1
           /\ Canned(LastMessage(messages')) /\ node' # "raised") =>
             node' = "end"]_vars

C30_Witness ==
    /\ node = "end"
    /\ \E i \in 1..Len(messages) : messages[i].type = "tool"
    /\ LastMessage(messages) = AIMessage(TroubleMessage)

====
